---- MODULE Spec2Model ----
(***************************************************************************)
(* Model of testAPI.py: a pytest module with five checks (two key          *)
(* presence-checks, one library-availability check, two call-checks)       *)
(* run after one load_dotenv() at import time.                             *)
(*                                                                         *)
(* Python values are encoded as follows.                                   *)
(*   - os.environ is a dict: a function whose DOMAIN is the set of the     *)
(*     variables that are set.                                             *)
(*   - An optional value (os.getenv's result, a message's content) is a    *)
(*     sequence: <<>> is None and <<v>> is the value v.                    *)
(*   - A generated text is a sequence of one-character strings.            *)
(* The vendor SDKs and the remote endpoints are not part of the            *)
(* repository: what a provider does for a run (fail construction, raise    *)
(* on the request, never return, or return a response) is chosen in Init   *)
(* and stays fixed for the run.                                            *)
(***************************************************************************)
EXTENDS Integers, Sequences, FiniteSets, TLC

VARIABLES environ, sys_modules, installed, provider, pc, frame, result, reruns

vars == <<environ, sys_modules, installed, provider, pc, frame, result, reruns>>

----------------------------------------------------------------------------
(* Bounds and input domains *)

(* How many times a session may execute a check that already has a result. *)
MaxReruns == 1

EnvVars == {"OPENAI_API_KEY", "ANTHROPIC_API_KEY"}

EnvValues == {"", "sk-key"}

Modules == {"openai", "anthropic"}

Providers == {"openai", "anthropic"}

Declared == << "test_openai_key_present", "test_openai_call",
               "test_anthropic_installed", "test_anthropic_key_present",
               "test_anthropic_call" >>

Checks == {Declared[i] : i \in 1..Len(Declared)}

None == <<>>

Some(v) == <<v>>

(* Generated texts: "", "OK", "KO", "KOK", "ok", "O K". *)
Texts == { <<>>, <<"O", "K">>, <<"K", "O">>, <<"K", "O", "K">>,
           <<"o", "k">>, <<"O", " ", "K">> }

Dicts == UNION {[S -> EnvValues] : S \in SUBSET EnvVars}

LoadErrors == {"No module named"}

(* A response is the list of its choices (OpenAI) or content blocks        *)
(* (Anthropic), each with an optional text.                                *)
Replies == {<<>>, <<None>>} \cup {<<Some(t)>> : t \in Texts}
             \cup {<< Some(<<"K">>), Some(<<"O", "K">>) >>}

Behaviours ==
    {[kind |-> k, reply |-> <<>>] :
        k \in {"ctor_raises", "request_raises", "never_returns"}}
      \cup {[kind |-> "response", reply |-> r] : r \in Replies}

----------------------------------------------------------------------------
(* Pure helpers *)

getenv(e, name) == IF name \in DOMAIN e THEN Some(e[name]) ELSE None

(* Variant: the test  is not None  in place of truthiness. *)
TruthyIsNotNone(v) == v # None

(* Truthiness of an optional string: None and "" are false. *)
Truthy(v) == v # None /\ v[1] # ""

(* Variant: s.startswith(sub) in place of  sub in s. *)
StartsWith(sub, s) == Len(sub) <= Len(s) /\ SubSeq(s, 1, Len(sub)) = sub

(* Python's  sub in s  on strings. *)
Contains(sub, s) ==
    \E i \in 1..(Len(s) + 1) :
        /\ i + Len(sub) - 1 <= Len(s)
        /\ SubSeq(s, i, i + Len(sub) - 1) = sub

OK == <<"O", "K">>

(* import m: served from sys.modules, or loaded if the package is there. *)
CanImport(m) == m \in sys_modules \/ installed[m] = "ok"

NoResult == [outcome |-> "none", error |-> "", message |-> <<>>,
             requests |-> <<>>, clients |-> {}]

Passed(reqs, cl) == [outcome |-> "passed", error |-> "", message |-> <<>>,
                     requests |-> reqs, clients |-> cl]

Failed(err, msg, reqs, cl) == [outcome |-> "failed", error |-> err,
                               message |-> msg, requests |-> reqs,
                               clients |-> cl]

NoFrame == [check |-> "none", client |-> "none", sent |-> <<>>]

(* The runner starts check c: no check is executing; reruns counts the     *)
(* executions of checks that already had a result.                         *)
Select(c) ==
    /\ pc = "idle"
    /\ result[c].outcome # "none" => reruns < MaxReruns
    /\ reruns' = IF result[c].outcome # "none" THEN reruns + 1 ELSE reruns

----------------------------------------------------------------------------

Init ==
    /\ environ \in Dicts
    /\ sys_modules = {}
    /\ installed \in [Modules -> {"ok"} \cup LoadErrors]
    /\ provider \in [Providers -> Behaviours]
    /\ pc = "boot"
    /\ frame = NoFrame
    /\ result = [c \in Checks |-> NoResult]
    /\ reruns = 0

(* load_dotenv(): variables of the .env file are added to os.environ,      *)
(* those already set are kept (override is off).                           *)
load_dotenv ==
    /\ pc = "boot"
    /\ \E file \in Dicts :
          environ' = [k \in DOMAIN environ \cup DOMAIN file |->
                         IF k \in DOMAIN environ THEN environ[k] ELSE file[k]]
    /\ pc' = "idle"
    /\ UNCHANGED <<sys_modules, installed, provider, frame, result, reruns>>

(* Variant: os.environ.pop("OPENAI_API_KEY", None) in place of os.getenv:  *)
(* the check consumes the variable it tests.                               *)
test_openai_key_present_pop ==
    /\ Select("test_openai_key_present")
    /\ environ' = [k \in DOMAIN environ \ {"OPENAI_API_KEY"} |-> environ[k]]
    /\ result' = [result EXCEPT !["test_openai_key_present"] =
          IF Truthy(getenv(environ, "OPENAI_API_KEY"))
          THEN Passed(<<>>, {})
          ELSE Failed("AssertionError",
                      <<"OPENAI_API_KEY", "is not set in this environment">>,
                      <<>>, {})]
    /\ UNCHANGED <<sys_modules, installed, provider, pc, frame>>

test_openai_key_present ==
    /\ Select("test_openai_key_present")
    /\ result' = [result EXCEPT !["test_openai_key_present"] =
          IF Truthy(getenv(environ, "OPENAI_API_KEY"))
          THEN Passed(<<>>, {})
          ELSE Failed("AssertionError",
                      <<"OPENAI_API_KEY", "is not set in this environment">>,
                      <<>>, {})]
    /\ UNCHANGED <<environ, sys_modules, installed, provider, pc, frame>>

(* Variant: the call-check consults the outcome that the presence-check    *)
(* left behind (a shared flag) and fails at once when that one failed.     *)
test_openai_call_after_presence ==
    /\ Select("test_openai_call")
    /\ IF ~CanImport("openai")
       THEN /\ result' = [result EXCEPT !["test_openai_call"] =
                    Failed("ImportError", <<installed["openai"]>>, <<>>, {})]
            /\ UNCHANGED <<sys_modules, pc, frame>>
       ELSE /\ sys_modules' = sys_modules \cup {"openai"}
            /\ IF \/ provider["openai"].kind = "ctor_raises"
                  \/ result["test_openai_key_present"].outcome = "failed"
               THEN /\ result' = [result EXCEPT !["test_openai_call"] =
                            Failed("OpenAIError", <<>>, <<>>, {})]
                    /\ UNCHANGED <<pc, frame>>
               ELSE /\ pc' = "await"
                    /\ frame' = [check |-> "test_openai_call",
                                 client |-> "openai",
                                 sent |-> << [provider |-> "openai",
                                              model |-> "gpt-4o-mini",
                                              prompt |-> "Say OK",
                                              max_tokens |-> 5] >>]
                    /\ UNCHANGED result
    /\ UNCHANGED <<environ, installed, provider>>

(* from openai import OpenAI; client = OpenAI(); the request is sent and    *)
(* the check blocks on client.chat.completions.create(...).                *)
test_openai_call ==
    /\ Select("test_openai_call")
    /\ IF ~CanImport("openai")
       THEN /\ result' = [result EXCEPT !["test_openai_call"] =
                    Failed("ImportError", <<installed["openai"]>>, <<>>, {})]
            /\ UNCHANGED <<sys_modules, pc, frame>>
       ELSE /\ sys_modules' = sys_modules \cup {"openai"}
            /\ IF provider["openai"].kind = "ctor_raises"
               THEN /\ result' = [result EXCEPT !["test_openai_call"] =
                            Failed("OpenAIError", <<>>, <<>>, {})]
                    /\ UNCHANGED <<pc, frame>>
               ELSE /\ pc' = "await"
                    /\ frame' = [check |-> "test_openai_call",
                                 client |-> "openai",
                                 sent |-> << [provider |-> "openai",
                                              model |-> "gpt-4o-mini",
                                              prompt |-> "Say OK",
                                              max_tokens |-> 5] >>]
                    /\ UNCHANGED result
    /\ UNCHANGED <<environ, installed, provider>>

(* resp = client.chat.completions.create(...)                              *)
(* assert "OK" in resp.choices[0].message.content                          *)
(* b is what the provider does with the request, sent the requests issued  *)
(* and client the handle of this execution.                                *)
openai_assert(b, sent, client) ==
    IF b.kind = "request_raises"
    THEN Failed("APIError", <<>>, sent, {client})
    ELSE IF b.reply = <<>>
    THEN Failed("IndexError", <<>>, sent, {client})
    ELSE IF b.reply[1] = None
    THEN Failed("TypeError", <<>>, sent, {client})
    ELSE IF Contains(OK, b.reply[1][1])
    THEN Passed(sent, {client})
    ELSE Failed("AssertionError", <<>>, sent, {client})

(* Variant: a request that raised is sent once more before the check      *)
(* gives up.                                                               *)
openai_create_returns_retry ==
    /\ pc = "await"
    /\ frame.check = "test_openai_call"
    /\ provider["openai"].kind # "never_returns"
    /\ IF provider["openai"].kind = "request_raises" /\ Len(frame.sent) < 2
       THEN /\ frame' = [frame EXCEPT !.sent = Append(@, frame.sent[1])]
            /\ UNCHANGED <<pc, result>>
       ELSE /\ result' = [result EXCEPT !["test_openai_call"] =
                    openai_assert(provider["openai"], frame.sent, frame.client)]
            /\ pc' = "idle"
            /\ frame' = NoFrame
    /\ UNCHANGED <<environ, sys_modules, installed, provider, reruns>>

(* The request of test_openai_call returns or raises, the assertion is     *)
(* evaluated and the check ends; client and resp go out of scope.          *)
openai_create_returns ==
    /\ pc = "await"
    /\ frame.check = "test_openai_call"
    /\ provider["openai"].kind # "never_returns"
    /\ result' = [result EXCEPT !["test_openai_call"] =
            openai_assert(provider["openai"], frame.sent, frame.client)]
    /\ pc' = "idle"
    /\ frame' = NoFrame
    /\ UNCHANGED <<environ, sys_modules, installed, provider, reruns>>

(* Variant: the except clause ends the whole session (pytest.exit) in      *)
(* place of failing the one check.                                         *)
test_anthropic_installed_exit ==
    /\ Select("test_anthropic_installed")
    /\ IF CanImport("anthropic")
       THEN /\ sys_modules' = sys_modules \cup {"anthropic"}
            /\ result' = [result EXCEPT !["test_anthropic_installed"] =
                    Passed(<<>>, {})]
            /\ UNCHANGED pc
       ELSE /\ pc' = "exited"
            /\ UNCHANGED <<sys_modules, result>>
    /\ UNCHANGED <<environ, installed, provider, frame>>

(* Variant: the except clause swallows the load error (pass). *)
test_anthropic_installed_swallow ==
    /\ Select("test_anthropic_installed")
    /\ sys_modules' = IF CanImport("anthropic")
                      THEN sys_modules \cup {"anthropic"} ELSE sys_modules
    /\ result' = [result EXCEPT !["test_anthropic_installed"] = Passed(<<>>, {})]
    /\ UNCHANGED <<environ, installed, provider, pc, frame>>

(* try: import anthropic / except Exception as e: pytest.fail(f"...: {e}") *)
test_anthropic_installed ==
    /\ Select("test_anthropic_installed")
    /\ IF CanImport("anthropic")
       THEN /\ sys_modules' = sys_modules \cup {"anthropic"}
            /\ result' = [result EXCEPT !["test_anthropic_installed"] =
                    Passed(<<>>, {})]
       ELSE /\ result' = [result EXCEPT !["test_anthropic_installed"] =
                    Failed("Failed",
                           <<"anthropic package not installed in this interpreter:",
                             installed["anthropic"]>>,
                           <<>>, {})]
            /\ UNCHANGED sys_modules
    /\ UNCHANGED <<environ, installed, provider, pc, frame>>

(* Variant: os.environ.setdefault("ANTHROPIC_API_KEY", "") in place of     *)
(* os.getenv("ANTHROPIC_API_KEY"): an unset variable gets set to "".       *)
test_anthropic_key_present_setdefault ==
    /\ Select("test_anthropic_key_present")
    /\ environ' = IF "ANTHROPIC_API_KEY" \in DOMAIN environ THEN environ
                  ELSE [k \in DOMAIN environ \cup {"ANTHROPIC_API_KEY"} |->
                           IF k = "ANTHROPIC_API_KEY" THEN "" ELSE environ[k]]
    /\ result' = [result EXCEPT !["test_anthropic_key_present"] =
          IF Truthy(getenv(environ, "ANTHROPIC_API_KEY"))
          THEN Passed(<<>>, {})
          ELSE Failed("AssertionError",
                      <<"ANTHROPIC_API_KEY", "is not set in this environment">>,
                      <<>>, {})]
    /\ UNCHANGED <<sys_modules, installed, provider, pc, frame>>

test_anthropic_key_present ==
    /\ Select("test_anthropic_key_present")
    /\ result' = [result EXCEPT !["test_anthropic_key_present"] =
          IF Truthy(getenv(environ, "ANTHROPIC_API_KEY"))
          THEN Passed(<<>>, {})
          ELSE Failed("AssertionError",
                      <<"ANTHROPIC_API_KEY", "is not set in this environment">>,
                      <<>>, {})]
    /\ UNCHANGED <<environ, sys_modules, installed, provider, pc, frame>>

(* from anthropic import Anthropic; client = Anthropic(); the request is   *)
(* sent and the check blocks on client.messages.create(...).               *)
test_anthropic_call ==
    /\ Select("test_anthropic_call")
    /\ IF ~CanImport("anthropic")
       THEN /\ result' = [result EXCEPT !["test_anthropic_call"] =
                    Failed("ImportError", <<installed["anthropic"]>>, <<>>, {})]
            /\ UNCHANGED <<sys_modules, pc, frame>>
       ELSE /\ sys_modules' = sys_modules \cup {"anthropic"}
            /\ IF provider["anthropic"].kind = "ctor_raises"
               THEN /\ result' = [result EXCEPT !["test_anthropic_call"] =
                            Failed("AnthropicError", <<>>, <<>>, {})]
                    /\ UNCHANGED <<pc, frame>>
               ELSE /\ pc' = "await"
                    /\ frame' = [check |-> "test_anthropic_call",
                                 client |-> "anthropic",
                                 sent |-> << [provider |-> "anthropic",
                                              model |-> "claude-3-haiku-20240307",
                                              prompt |-> "Say OK",
                                              max_tokens |-> 5] >>]
                    /\ UNCHANGED result
    /\ UNCHANGED <<environ, installed, provider>>

(* Variant: the assertion reads the last content block, resp.content[-1]. *)
anthropic_assert_last(b, sent, client) ==
    IF b.kind = "request_raises"
    THEN Failed("APIError", <<>>, sent, {client})
    ELSE IF b.reply = <<>>
    THEN Failed("IndexError", <<>>, sent, {client})
    ELSE IF b.reply[Len(b.reply)] = None
    THEN Failed("TypeError", <<>>, sent, {client})
    ELSE IF Contains(OK, b.reply[Len(b.reply)][1])
    THEN Passed(sent, {client})
    ELSE Failed("AssertionError", <<>>, sent, {client})

(* resp = client.messages.create(...)                                      *)
(* assert "OK" in resp.content[0].text                                     *)
anthropic_assert(b, sent, client) ==
    IF b.kind = "request_raises"
    THEN Failed("APIError", <<>>, sent, {client})
    ELSE IF b.reply = <<>>
    THEN Failed("IndexError", <<>>, sent, {client})
    ELSE IF b.reply[1] = None
    THEN Failed("TypeError", <<>>, sent, {client})
    ELSE IF Contains(OK, b.reply[1][1])
    THEN Passed(sent, {client})
    ELSE Failed("AssertionError", <<>>, sent, {client})

(* The request of test_anthropic_call returns or raises, the assertion is  *)
(* evaluated and the check ends; client and resp go out of scope.          *)
anthropic_create_returns ==
    /\ pc = "await"
    /\ frame.check = "test_anthropic_call"
    /\ provider["anthropic"].kind # "never_returns"
    /\ result' = [result EXCEPT !["test_anthropic_call"] =
            anthropic_assert(provider["anthropic"], frame.sent, frame.client)]
    /\ pc' = "idle"
    /\ frame' = NoFrame
    /\ UNCHANGED <<environ, sys_modules, installed, provider, reruns>>

----------------------------------------------------------------------------
(* Spec: the checks may be selected in any order and any number of times   *)
(* (pytest node ids, -k, repeated invocation within one session).          *)

Next ==
    \/ load_dotenv
    \/ test_openai_key_present
    \/ test_openai_call
    \/ openai_create_returns
    \/ test_anthropic_installed
    \/ test_anthropic_key_present
    \/ test_anthropic_call
    \/ anthropic_create_returns

Spec == Init /\ [][Next]_vars

(* RunSpec: one pytest run of the module. Each check is executed once, in   *)
(* the order declared, and the runner goes on after a failure. A request   *)
(* that the provider answers does return; one that the provider never      *)
(* answers leaves openai_create_returns / anthropic_create_returns         *)
(* disabled for ever.                                                      *)

Turn(c) ==
    \E i \in 1..Len(Declared) :
        /\ Declared[i] = c
        /\ result[c].outcome = "none"
        /\ \A j \in 1..(i - 1) : result[Declared[j]].outcome # "none"

RunNext ==
    \/ load_dotenv
    \/ Turn("test_openai_key_present") /\ test_openai_key_present
    \/ Turn("test_openai_call") /\ test_openai_call
    \/ openai_create_returns
    \/ Turn("test_anthropic_installed") /\ test_anthropic_installed
    \/ Turn("test_anthropic_key_present") /\ test_anthropic_key_present
    \/ Turn("test_anthropic_call") /\ test_anthropic_call
    \/ anthropic_create_returns

RunSpec == Init /\ [][RunNext]_vars /\ WF_vars(RunNext)

----------------------------------------------------------------------------
(* Vocabulary of the properties *)

Ran(c) == result[c].outcome # "none"

KeyOf(c) == IF c \in {"test_openai_key_present", "test_openai_call"}
            THEN "OPENAI_API_KEY" ELSE "ANTHROPIC_API_KEY"

ProviderOf(c) == IF c \in {"test_openai_key_present", "test_openai_call"}
                 THEN "openai" ELSE "anthropic"

PresenceChecks == {"test_openai_key_present", "test_anthropic_key_present"}

CallChecks == {"test_openai_call", "test_anthropic_call"}

Range(s) == {s[i] : i \in 1..Len(s)}

KeyMissing(v) == v \notin DOMAIN environ \/ environ[v] = ""

(* "OK" occurs in the text t, stated on the characters. *)
HasOK(t) == \E i \in 1..(Len(t) - 1) : t[i] = "O" /\ t[i + 1] = "K"

(* The provider p answers the request with a response whose first choice   *)
(* (content block) carries a text in which "OK" occurs.                    *)
AnswersOK(p) ==
    /\ provider[p].kind = "response"
    /\ Len(provider[p].reply) >= 1
    /\ Len(provider[p].reply[1]) = 1
    /\ HasOK(provider[p].reply[1][1])

----------------------------------------------------------------------------
(* C1: a presence-check that has run has passed exactly when its variable  *)
(* is set to a non-empty value; when the variable is unset or empty it has *)
(* failed with a message that names the variable.                          *)
PresenceContract ==
    \A c \in PresenceChecks :
        Ran(c) =>
            /\ result[c].outcome = "passed" <=> ~KeyMissing(KeyOf(c))
            /\ KeyMissing(KeyOf(c)) =>
                  /\ result[c].outcome = "failed"
                  /\ KeyOf(c) \in Range(result[c].message)

(* OPENAI_API_KEY is set but empty and its check failed, ANTHROPIC_API_KEY *)
(* is unset and its check failed too.                                      *)
PresenceWitness ==
    /\ "OPENAI_API_KEY" \in DOMAIN environ
    /\ environ["OPENAI_API_KEY"] = ""
    /\ result["test_openai_key_present"].outcome = "failed"
    /\ "ANTHROPIC_API_KEY" \notin DOMAIN environ
    /\ result["test_anthropic_key_present"].outcome = "failed"

(* C2: a call-check never has outcome passed while its provider's key is   *)
(* unset or empty.                                                         *)
NoPassWithoutKey ==
    \A c \in CallChecks :
        KeyMissing(KeyOf(c)) => result[c].outcome # "passed"

(* C3: when the anthropic package cannot be loaded, the availability check *)
(* fails with a message carrying the load error, and no check constructs   *)
(* an Anthropic client or issues an Anthropic request.                     *)
AnthropicUnavailable ==
    installed["anthropic"] # "ok" =>
        /\ Ran("test_anthropic_installed") =>
              /\ result["test_anthropic_installed"].outcome = "failed"
              /\ installed["anthropic"] \in
                    Range(result["test_anthropic_installed"].message)
        /\ "anthropic" \notin sys_modules
        /\ frame.client # "anthropic"
        /\ \A i \in 1..Len(frame.sent) : frame.sent[i].provider # "anthropic"
        /\ \A c \in Checks :
              /\ "anthropic" \notin result[c].clients
              /\ \A i \in 1..Len(result[c].requests) :
                    result[c].requests[i].provider # "anthropic"

(* The package is missing; the availability check and the call-check have  *)
(* both run and failed.                                                    *)
AnthropicUnavailableWitness ==
    /\ installed["anthropic"] # "ok"
    /\ result["test_anthropic_installed"].outcome = "failed"
    /\ result["test_anthropic_call"].outcome = "failed"
    /\ result["test_anthropic_call"].error = "ImportError"

(* C4: the OpenAI call-check that has run has passed exactly when the      *)
(* library loaded, the client was constructed and the response's first     *)
(* choice has a text containing "OK"; a passed check issued exactly the    *)
(* one request (prompt "Say OK", ceiling 5).                               *)
OpenAICallContract ==
    Ran("test_openai_call") =>
        /\ result["test_openai_call"].outcome = "passed" <=>
              (installed["openai"] = "ok" /\ AnswersOK("openai"))
        /\ result["test_openai_call"].outcome = "passed" =>
              /\ Len(result["test_openai_call"].requests) = 1
              /\ result["test_openai_call"].requests[1].prompt = "Say OK"
              /\ result["test_openai_call"].requests[1].max_tokens = 5
              /\ result["test_openai_call"].clients = {"openai"}

(* The check passed on a text that has "OK" after its first character. *)
OpenAICallWitness ==
    /\ result["test_openai_call"].outcome = "passed"
    /\ provider["openai"].reply = << Some(<<"K", "O", "K">>) >>

(* C5: the Anthropic call-check that has run has passed exactly when the   *)
(* library loaded, the client was constructed and the response's first     *)
(* content block has a text containing "OK"; in every other case it has    *)
(* failed with the error of the step that raised.                          *)
AnthropicCallContract ==
    Ran("test_anthropic_call") =>
        LET r == result["test_anthropic_call"]
            b == provider["anthropic"]
        IN  /\ r.outcome = "passed" <=>
                  (installed["anthropic"] = "ok" /\ AnswersOK("anthropic"))
            /\ r.outcome = "passed" =>
                  /\ Len(r.requests) = 1
                  /\ r.requests[1].prompt = "Say OK"
                  /\ r.requests[1].max_tokens = 5
            /\ installed["anthropic"] # "ok" => r.error = "ImportError"
            /\ (installed["anthropic"] = "ok" /\ b.kind = "ctor_raises")
                  => r.error = "AnthropicError"
            /\ (installed["anthropic"] = "ok" /\ b.kind = "request_raises")
                  => r.error = "APIError"

(* The check failed its assertion on a response whose first block lacks    *)
(* "OK" although a later block has it.                                     *)
AnthropicCallWitness ==
    /\ result["test_anthropic_call"].outcome = "failed"
    /\ result["test_anthropic_call"].error = "AssertionError"
    /\ Len(provider["anthropic"].reply) = 2

(* The outcome a check has in an environment, whatever ran before it. *)
Expected(c) ==
    IF c \in PresenceChecks
    THEN IF KeyMissing(KeyOf(c)) THEN "failed" ELSE "passed"
    ELSE IF c = "test_anthropic_installed"
    THEN IF installed["anthropic"] = "ok" THEN "passed" ELSE "failed"
    ELSE IF installed[ProviderOf(c)] = "ok" /\ AnswersOK(ProviderOf(c))
         THEN "passed" ELSE "failed"

(* C6: whatever the order in which the checks were executed and whatever   *)
(* the other checks' outcomes, every check that has run has the outcome    *)
(* that the environment and the provider behaviour alone determine.        *)
OrderIndependence ==
    \A c \in Checks : Ran(c) => result[c].outcome = Expected(c)

(* OPENAI_API_KEY is empty and everything else is valid: the OpenAI        *)
(* presence-check failed and the four other checks passed.                 *)
OrderIndependenceWitness ==
    /\ "OPENAI_API_KEY" \in DOMAIN environ
    /\ environ["OPENAI_API_KEY"] = ""
    /\ result["test_openai_key_present"].outcome = "failed"
    /\ \A c \in Checks \ {"test_openai_key_present"} :
          result[c].outcome = "passed"

(* C7: executing again a check that already has a result leaves its        *)
(* outcome as it was, and no client handle or request outlives the check   *)
(* that made it.                                                           *)
Idempotence ==
    /\ [][\A c \in Checks : Ran(c) => result'[c].outcome = result[c].outcome]_vars
    /\ [](pc # "await" => frame = NoFrame)

(* test_openai_call is the only check executed so far, and it has been     *)
(* executed twice.                                                         *)
IdempotenceWitness ==
    /\ reruns = 1
    /\ pc = "idle"
    /\ {c \in Checks : Ran(c)} = {"test_openai_call"}

(* C8: an execution of a call-check issues at most one request, to its own *)
(* provider, and exactly one when its client was constructed; a request    *)
(* that raised ended the check as failed with that one request; the other  *)
(* checks issue none.                                                      *)
NothingRetried ==
    /\ Len(frame.sent) <= 1
    /\ pc = "await" =>
          /\ frame.check \in CallChecks
          /\ Len(frame.sent) = 1
          /\ frame.sent[1].provider = ProviderOf(frame.check)
          /\ frame.client = ProviderOf(frame.check)
    /\ \A c \in Checks \ CallChecks :
          result[c].requests = <<>> /\ result[c].clients = {}
    /\ \A c \in CallChecks :
          /\ Len(result[c].requests) <= 1
          /\ Len(result[c].requests) = 1 <=> result[c].clients # {}
          /\ \A i \in 1..Len(result[c].requests) :
                result[c].requests[i].provider = ProviderOf(c)
          /\ result[c].clients \subseteq {ProviderOf(c)}
          /\ (Ran(c) /\ installed[ProviderOf(c)] = "ok"
                     /\ provider[ProviderOf(c)].kind # "ctor_raises")
                => Len(result[c].requests) = 1
          /\ (Ran(c) /\ provider[ProviderOf(c)].kind = "request_raises"
                     /\ installed[ProviderOf(c)] = "ok")
                => result[c].outcome = "failed" /\ result[c].error = "APIError"

(* The OpenAI request raised: the check failed having issued one request,  *)
(* and no request went to the other provider.                              *)
NothingRetriedWitness ==
    /\ result["test_openai_call"].error = "APIError"
    /\ Len(result["test_openai_call"].requests) = 1
    /\ pc = "idle"
    /\ ~Ran("test_anthropic_call")

(* C9: load_dotenv runs once, before any check; from then on no step,      *)
(* of a passing or of a failing check, changes os.environ.                 *)
EnvironReadOnly ==
    /\ [][pc # "boot" => (environ' = environ /\ pc' # "boot")]_vars
    /\ [](pc = "boot" => (frame = NoFrame /\ \A c \in Checks : ~Ran(c)))

(* All five checks have run, one at least failed for an unset key, and     *)
(* one passed.                                                             *)
EnvironReadOnlyWitness ==
    /\ \A c \in Checks : Ran(c)
    /\ "ANTHROPIC_API_KEY" \notin DOMAIN environ
    /\ result["test_anthropic_key_present"].outcome = "failed"
    /\ result["test_openai_key_present"].outcome = "passed"

NoHang == \A p \in Providers : provider[p].kind # "never_returns"

Blocked == pc = "await" /\ provider[frame.client].kind = "never_returns"

Completed == pc = "idle" /\ \A c \in Checks : Ran(c)

(* C10: in a run, if no provider leaves a request unanswered, eventually   *)
(* all five checks have an outcome, failures included; an outcome once     *)
(* reported is never replaced; and no step is taken from a state in which  *)
(* a check waits on a request that is never answered.                      *)
RunCompletes ==
    /\ NoHang ~> Completed
    /\ [][\A c \in Checks : Ran(c) => result'[c] = result[c]]_vars
    /\ [][~Blocked]_vars

(* The run completed although its first check failed and the Anthropic     *)
(* package is missing.                                                     *)
RunCompletesWitness ==
    /\ Completed
    /\ result["test_openai_key_present"].outcome = "failed"
    /\ result["test_anthropic_installed"].outcome = "failed"
    /\ result["test_openai_call"].outcome = "passed"

====
